---- MODULE Spec2Model ----
(***************************************************************************)
(* Model of the Binance Futures testnet bots of this repository:           *)
(*   src/bot.py   interactive flow cli() over python-binance               *)
(*   src/main.py  argparse flow main() over a hand-written signed request  *)
(*                                                                         *)
(* Numbers.  A Python Decimal is modelled by a record [n, d] with d > 0    *)
(* standing for n / d.  A Decimal read from a string has d a power of ten  *)
(* (d = 10^-exponent), so "0.5" is [5, 10] and "0.50" is [50, 100]; the    *)
(* record is never reduced except where the code calls normalize().  The   *)
(* operands of the model have a few digits only, far below the 28 digits   *)
(* of the default decimal context, so every product, comparison and        *)
(* integral rounding of the code is exact here as it is there.  The one    *)
(* operation that is not exact in Python is a non-terminating division,    *)
(* rounded to the precision of the decimal context.  Where the quotient    *)
(* is rounded again at once to a coarser grid (quantize to the step or to  *)
(* 8 places, to_integral_value) the first rounding cannot be seen for      *)
(* operands of a few digits and the exact quotient is used.  Where the     *)
(* quotient itself becomes the quantity (stepSize = 0) the record keeps    *)
(* the exact quotient and RoundTrip computes on which side of minNotional  *)
(* the Decimal product quantity * price lands.                             *)
(***************************************************************************)
EXTENDS Integers, Sequences, FiniteSets, TLC

VARIABLES
    entry,       \* the entry point that runs: "cli" | "main" | "direct"
    prec,        \* precision of the decimal context; 0 stands for exact arithmetic
    pc,          \* position of the running entry point
    envKey,      \* state of the API key source: "unset" | "empty" | "set"
    envSecret,   \* state of the API secret source
    clientBuilt, \* an exchange client / HTTP session has been constructed
    side,        \* side as held by the program
    order_type,  \* order type as held by the program
    requested,   \* requested quantity (Decimal) or None
    leverage,    \* leverage (int) or None
    price,       \* mark price used by the validation, or None
    filters,     \* symbol filters used by the validation, or None
    vres,        \* result of validate_and_prepare_quantity, or None
    available,   \* available USDT balance, or None
    required,    \* estimated required margin (8 places), or None
    calls,       \* exchange calls / HTTP requests issued so far
    logLevel,    \* level of the logging configuration in force
    log,         \* logging calls made so far
    req,         \* main.py: parameters of place_order
    out          \* what the run reported when it ended

vars == <<entry, prec, pc, envKey, envSecret, clientBuilt, side, order_type, requested,
          leverage, price, filters, vres, available, required, calls, logLevel,
          log, req, out>>

\* Python's None / a value not yet assigned is the empty sequence, a value v
\* is <<v>>
None == <<>>

Some(v) == <<v>>

Val(o) == o[1]

----------------------------------------------------------------------------
(* Bounds of the model *)

NegReq == 1
MaxReq == 5
MaxStep == 2
MaxMinQty == 2
MaxMinNotional == 2
MaxPrice == 3
MaxLeverage == 3
MaxAvail == 1

----------------------------------------------------------------------------
(* Decimal arithmetic *)

Dec(n, d) == [n |-> n, d |-> d]

Zero == Dec(0, 1)

IsZero(a) == a.n = 0

IsPos(a) == a.n > 0

Lt(a, b) == a.n * b.d < b.n * a.d

Le(a, b) == a.n * b.d <= b.n * a.d

Eq(a, b) == a.n * b.d = b.n * a.d

Add(a, b) == Dec(a.n * b.d + b.n * a.d, a.d * b.d)

Mul(a, b) == Dec(a.n * b.n, a.d * b.d)

\* a / b for b # 0, sign kept in the numerator
Div(a, b) ==
    IF b.n > 0 THEN Dec(a.n * b.d, a.d * b.n)
    ELSE Dec(-(a.n * b.d), a.d * (-b.n))

\* ROUND_DOWN of n / d (d > 0): towards zero
RoundDown(n, d) == IF n >= 0 THEN n \div d ELSE -((-n) \div d)

\* ROUND_UP of n / d (d > 0): away from zero
RoundUp(n, d) == IF n >= 0 THEN (n + d - 1) \div d ELSE -(((-n) + d - 1) \div d)

\* Decimal.normalize(): strip the trailing zeros of the coefficient
RECURSIVE normalize(_)
normalize(a) ==
    IF a.n = 0 THEN Zero
    ELSE IF a.d % 10 = 0 /\ a.n % 10 = 0 THEN normalize(Dec(a.n \div 10, a.d \div 10))
    ELSE a

\* Decimal(str(x)): the digits of x written out and read back
to_decimal(x) == Dec(x.n, x.d)

\* (qty / step).to_integral_value(rounding=ROUND_DOWN), step > 0
IntegralDown(qty, step) == RoundDown(qty.n * step.d, qty.d * step.n)

\* (qty / step).to_integral_value(rounding=ROUND_UP), step > 0
IntegralUp(qty, step) == RoundUp(qty.n * step.d, qty.d * step.n)

floor_to_step(qty, step) ==
    IF IsZero(step) THEN qty
    ELSE normalize(Mul(Dec(IntegralDown(qty, step), 1), step))

\* ceil_to_step with the rounding mode of floor_to_step
ceil_to_step_RoundDown(qty, step) ==
    IF IsZero(step) THEN qty
    ELSE normalize(Mul(Dec(IntegralDown(qty, step), 1), step))

ceil_to_step(qty, step) ==
    IF IsZero(step) THEN qty
    ELSE normalize(Mul(Dec(IntegralUp(qty, step), 1), step))

\* x.quantize(step, rounding=ROUND_UP): x rounded away from zero to the
\* exponent of step (not to a multiple of step)
QuantizeUp(x, step) == Dec(RoundUp(x.n * step.d, x.d), step.d)

\* a is an integer multiple of step (step > 0)
IsMultiple(a, step) == (a.n * step.d) % (a.d * step.n) = 0

----------------------------------------------------------------------------
(* src/bot.py: quantity validation and margin estimate *)

\* number of decimal places of the margin estimate
Places == 8

RECURSIVE Pow10(_)
Pow10(k) == IF k = 0 THEN 1 ELSE 10 * Pow10(k - 1)

\* k more decimal digits of r / d (0 <= r < d): the digits and the remainder
RECURSIVE Digits(_, _, _, _)
Digits(r, d, k, acc) ==
    IF k = 0 THEN [q |-> acc, r |-> r]
    ELSE Digits((r * 10) % d, d, k - 1, acc * 10 + ((r * 10) \div d))

\* x cut to Places decimals: [ip, fr] stands for ip + fr / 10^Places
Floor8(x) ==
    LET dg == Digits(x.n % x.d, x.d, Places, 0)
    IN  [ip |-> x.n \div x.d, fr |-> dg.q]

\* x.quantize(Decimal("0.00000001")) under the default ROUND_HALF_EVEN
Quantize8(x) ==
    LET dg == Digits(x.n % x.d, x.d, Places, 0)
        up == 2 * dg.r > x.d \/ (2 * dg.r = x.d /\ dg.q % 2 = 1)
        fr == IF up THEN dg.q + 1 ELSE dg.q
        ip == x.n \div x.d
    IN  IF fr = Pow10(Places) THEN [ip |-> ip + 1, fr |-> 0]
        ELSE [ip |-> ip, fr |-> fr]

\* the balance comparison with its operands exchanged
LtFixed_Swapped(a, f) ==
    LET c == Floor8(a)
    IN  f.ip < c.ip \/ (f.ip = c.ip /\ f.fr < c.fr)

\* a < f for a Decimal a and an 8-place value f
LtFixed(a, f) ==
    LET c == Floor8(a)
    IN  c.ip < f.ip \/ (c.ip = f.ip /\ c.fr < f.fr)

\* margin = notional / Decimal(leverage); (margin * Decimal("1.1")).quantize(1E-8)
\* for leverage # 0
estimate_required_margin(notional, lev) ==
    Quantize8(Mul(Div(notional, Dec(lev, 1)), Dec(11, 10)))

\* the rounding of the request done with ceil_to_step
FlooredQty_Ceil(requested_qty, step) ==
    IF ~IsZero(step) THEN ceil_to_step(requested_qty, step) ELSE requested_qty

\* qty_adj after the rounding down to the step
FlooredQty(requested_qty, step) ==
    IF ~IsZero(step) THEN floor_to_step(requested_qty, step) ELSE requested_qty

\* the minQty comparison with its operands exchanged
BelowMinQty_Swapped(qty, minQty) == IsPos(minQty) /\ Lt(minQty, qty)

\* "ensure qty >= minQty"
BelowMinQty(qty, minQty) == IsPos(minQty) /\ Lt(qty, minQty)

\* the notional checks, the first and the final one
BelowMinNotional(notional, minNotional) ==
    IsPos(minNotional) /\ Lt(notional, minNotional)

\* target_qty, for price # 0
TargetQty(minNotional, p, step) ==
    IF ~IsZero(step) THEN QuantizeUp(Div(minNotional, p), step)
    ELSE Div(minNotional, p)

\* qty_adj after the raise to the minimum notional
RaisedQty(target_qty, step) ==
    IF ~IsZero(step) THEN ceil_to_step(to_decimal(target_qty), step)
    ELSE to_decimal(target_qty)

\* precision of decimal's default context
DefaultPrec == 28

\* floor(log10(n / d)) for n, d > 0
RECURSIVE ILog10(_, _)
ILog10(n, d) ==
    IF n >= 10 * d THEN ILog10(n, 10 * d) + 1
    ELSE IF n < d THEN ILog10(10 * n, d) - 1
    ELSE 0

\* n / d is a power of ten (n, d > 0)
RECURSIVE IsPow10(_, _)
IsPow10(n, d) ==
    IF n >= 10 * d THEN IsPow10(n, 10 * d)
    ELSE IF n < d THEN IsPow10(10 * n, d)
    ELSE n = d

\* (n * 10^k) mod d
RECURSIVE RemPow(_, _, _)
RemPow(n, d, k) == IF k = 0 THEN n % d ELSE (RemPow(n, d, k - 1) * 10) % d

\* the sign of (m / p) * p - m as Decimal computes it for m, p > 0 in a
\* context of pr digits: the quotient is rounded half-even to pr digits, and
\* so is its product with p.  With x = m / p = N / D and k decimals kept, the
\* quotient is off by s / (D * 10^k) and the product by t / 10^k with
\* t = s / (m.d * p.d); the product is rounded back to m when it is within
\* half a unit of the last place of m.  0 when pr = 0 (exact arithmetic).
RoundTrip(m, p, pr) ==
    IF pr = 0 THEN 0
    ELSE
        LET N == m.n * p.d
            D == m.d * p.n
            ex == ILog10(N, D)
            k == (pr - 1) - ex
            R == RemPow(N, D, k)
            s == IF 2 * R > D THEN D - R ELSE -R
            td == m.d * p.d
            em == ILog10(m.n, m.d)
            a == IF s < 0 /\ IsPow10(m.n, m.d) THEN ex - em + 1 ELSE ex - em
            abs == IF s < 0 THEN -s ELSE s
            far == IF a >= 0 THEN 2 * abs * Pow10(a) > td
                   ELSE 2 * abs > td * Pow10(-a)
        IN  IF R = 0 \/ ~far THEN 0
            ELSE IF s < 0 THEN -1 ELSE 1

\* validate_and_prepare_quantity once the filters f and the mark price p have
\* been fetched, in a decimal context of pr digits.  raisedMin and
\* raisedNotional record which adjustment applied; rounding is the side on
\* which the Decimal notional lies of the value recorded (-1 below, 1 above).
validate_and_prepare_quantity(requested_qty, f, p, pr) ==
    LET step == f.stepSize
        minQty == f.minQty
        minNotional == f.minNotional
        floored == FlooredQty(requested_qty, step)
        raisedMin == BelowMinQty(floored, minQty)
        qty1 == IF raisedMin THEN minQty ELSE floored
        notional1 == Mul(qty1, p)
        raisedNotional == BelowMinNotional(notional1, minNotional)
        qty2 == IF raisedNotional THEN RaisedQty(TargetQty(minNotional, p, step), step)
                ELSE qty1
        notional2 == IF raisedNotional THEN Mul(qty2, p) ELSE notional1
        rounding == IF raisedNotional /\ IsZero(step) /\ IsPos(p)
                    THEN RoundTrip(minNotional, p, pr) ELSE 0
        res(ok, err, q, nn, rd) ==
            [ok |-> ok, err |-> err, qty |-> q, price |-> p, notional |-> nn,
             rounding |-> rd,
             raisedMin |-> raisedMin, raisedNotional |-> raisedNotional]
    IN  IF raisedNotional /\ IsZero(p)
        THEN res(FALSE, "DivisionByZero", qty1, notional1, 0)
        ELSE IF BelowMinNotional(notional2, minNotional) \/ rounding < 0
        THEN res(FALSE, "NotionalTooLow", qty2, notional2, rounding)
        ELSE res(TRUE, "", qty2, notional2, rounding)

----------------------------------------------------------------------------
(* src/bot.py: the interactive flow cli() *)

\* os.getenv(name, default) for a variable in state st
Getenv(st, default) ==
    IF st = "unset" THEN default ELSE IF st = "empty" THEN "" ELSE "value"

\* str.strip().upper() on the texts the model types in
Upper(s) ==
    CASE s = "buy" -> "BUY"
      [] s = "sell" -> "SELL"
      [] s = "hold" -> "HOLD"
      [] s = "market" -> "MARKET"
      [] s = "limit" -> "LIMIT"
      [] s = "stop_limit" -> "STOP_LIMIT"
      [] OTHER -> s

\* float(quantity): the value, without the Decimal's trailing zeros
to_float(x) == normalize(x)

EnvStates == {"unset", "empty", "set"}

SideInputs == {"buy", "HOLD"}

TypeInputs == {"market", "LIMIT"}

\* texts typed for the quantity: None is a text Decimal() rejects
QtyInputs == {None} \cup {Some(Dec(n, 10)) : n \in (-NegReq)..MaxReq}

\* texts typed for the leverage: None is a text int() rejects
LeverageInputs == {None} \cup {Some(l) : l \in 0..MaxLeverage}

\* filter values and prices the exchange may answer with
StepSizes == {Dec(n, 10) : n \in 0..MaxStep} \cup {Dec(1, 1)}

MinQtys == {Dec(n, 10) : n \in 0..MaxMinQty}

MinNotionals == {Dec(n, 1) : n \in 0..MaxMinNotional}

Prices == {Dec(n, 1) : n \in 0..MaxPrice}

Balances == {Dec(5 * n, 10) : n \in 0..MaxAvail}

Call(op) == [op |-> op, side |-> "", quantity |-> None]

Rec(level, msg) == [level |-> level, msg |-> msg, args |-> <<>>]

InitCommon ==
    /\ clientBuilt = FALSE
    /\ side = ""
    /\ order_type = ""
    /\ requested = None
    /\ leverage = None
    /\ price = None
    /\ filters = None
    /\ vres = None
    /\ available = None
    /\ required = None
    /\ calls = <<>>
    /\ log = <<>>
    /\ req = None
    /\ out = ""

\* a run of cli() with both credentials in the environment; bot.py sets the
\* logging level when it is loaded
Init ==
    /\ entry = "cli"
    /\ prec = DefaultPrec
    /\ logLevel = "INFO"
    /\ pc = "cli"
    /\ envKey = "set"
    /\ envSecret = "set"
    /\ InitCommon

\* a run of cli() in any state of the environment
InitEnv ==
    /\ entry = "cli"
    /\ prec = DefaultPrec
    /\ logLevel = "INFO"
    /\ pc = "cli"
    /\ envKey \in EnvStates
    /\ envSecret \in EnvStates
    /\ InitCommon

\* cli(): the credentials and the client
CliStart ==
    /\ pc = "cli"
    /\ LET API_KEY == Getenv(envKey, " ")
           API_SECRET == Getenv(envSecret, " ")
       IN  IF API_KEY = "" \/ API_SECRET = ""
           THEN /\ out' = "api_keys_missing"
                /\ pc' = "done"
                /\ UNCHANGED <<clientBuilt, log>>
           ELSE /\ clientBuilt' = TRUE
                /\ log' = Append(log, Rec("INFO", "Binance Futures Testnet Bot Initialized"))
                /\ pc' = "input"
                /\ out' = out
    /\ UNCHANGED <<entry, prec, logLevel, envKey, envSecret, side, order_type, requested, leverage, price,
                   filters, vres, available, required, calls, req>>

\* cli(): the five prompts and the numeric conversion
CliReadInputs ==
    /\ pc = "input"
    /\ \E s \in SideInputs, t \in TypeInputs, q \in QtyInputs, l \in LeverageInputs :
        /\ side' = Upper(s)
        /\ order_type' = Upper(t)
        /\ IF q = None
           THEN /\ out' = "invalid_numeric_inputs"
                /\ pc' = "done"
                /\ UNCHANGED <<requested, leverage>>
           ELSE IF l = None
           THEN /\ out' = "invalid_numeric_inputs"
                /\ pc' = "done"
                /\ requested' = q
                /\ UNCHANGED leverage
           ELSE /\ requested' = q
                /\ leverage' = l
                /\ pc' = "margin_type"
                /\ out' = out
    /\ UNCHANGED <<entry, prec, logLevel, envKey, envSecret, clientBuilt, price, filters, vres, available,
                   required, calls, log, req>>

\* bot.set_margin_type(symbol, "ISOLATED"): an API error is logged and dropped
CliSetMarginType ==
    /\ pc = "margin_type"
    /\ calls' = Append(calls, Call("futures_change_margin_type"))
    /\ \E ok \in BOOLEAN :
        log' = Append(log, IF ok THEN Rec("INFO", "Set margin type")
                           ELSE Rec("DEBUG", "set_margin_type response"))
    /\ pc' = "leverage"
    /\ UNCHANGED <<entry, prec, logLevel, envKey, envSecret, clientBuilt, side, order_type, requested,
                   leverage, price, filters, vres, available, required, req, out>>

\* bot.set_leverage(symbol, leverage): an API error is logged and raised
CliSetLeverage ==
    /\ pc = "leverage"
    /\ calls' = Append(calls, Call("futures_change_leverage"))
    /\ \E ok \in BOOLEAN :
        IF ok
        THEN /\ log' = Append(log, Rec("INFO", "Set leverage"))
             /\ pc' = "validate"
             /\ out' = out
        ELSE /\ log' = Append(log, Rec("ERROR", "Failed to set leverage"))
             /\ pc' = "done"
             /\ out' = "uncaught_BinanceAPIException"
    /\ UNCHANGED <<entry, prec, logLevel, envKey, envSecret, clientBuilt, side, order_type, requested,
                   leverage, price, filters, vres, available, required, req>>

\* bot.validate_and_prepare_quantity(symbol, requested_qty, leverage) as cli()
\* calls it: every exception ends the run with "validation failed"
CliValidate ==
    /\ pc = "validate"
    /\ \/ \* futures_exchange_info raises, or lists no such symbol
          /\ calls' = Append(calls, Call("futures_exchange_info"))
          /\ \E e \in {"BinanceAPIException", "SymbolNotFound"} :
                out' = "validation_failed"
          /\ pc' = "done"
          /\ UNCHANGED <<price, filters, vres, log>>
       \/ \* futures_mark_price raises
          /\ calls' = calls \o <<Call("futures_exchange_info"), Call("futures_mark_price")>>
          /\ \E st \in StepSizes, mq \in MinQtys, mn \in MinNotionals :
                filters' = Some([stepSize |-> st, minQty |-> mq, minNotional |-> mn])
          /\ out' = "validation_failed"
          /\ pc' = "done"
          /\ UNCHANGED <<price, vres, log>>
       \/ \* both answers arrive
          /\ calls' = calls \o <<Call("futures_exchange_info"), Call("futures_mark_price")>>
          /\ \E st \in StepSizes, mq \in MinQtys, mn \in MinNotionals, p \in Prices :
                LET f == [stepSize |-> st, minQty |-> mq, minNotional |-> mn]
                    r == validate_and_prepare_quantity(Val(requested), f, p, prec)
                IN  /\ filters' = Some(f)
                    /\ price' = Some(p)
                    /\ vres' = Some(r)
                    /\ log' = Append(log, Rec("INFO", "mark price"))
                    /\ IF r.ok
                       THEN pc' = "balance" /\ out' = out
                       ELSE pc' = "done" /\ out' = "validation_failed"
    /\ UNCHANGED <<entry, prec, logLevel, envKey, envSecret, clientBuilt, side, order_type, requested,
                   leverage, available, required, req>>

\* cli(): get_usdt_available, estimate_required_margin and the balance check
CliCheckBalance ==
    /\ pc = "balance"
    /\ calls' = Append(calls, Call("futures_account_balance"))
    /\ \/ \* futures_account_balance raises: nothing in cli() catches it
          /\ out' = "uncaught_BinanceAPIException"
          /\ pc' = "done"
          /\ UNCHANGED <<available, required>>
       \/ \E a \in Balances :
          /\ available' = Some(a)
          /\ IF Val(leverage) = 0
             THEN \* notional / Decimal(0): nothing in cli() catches it
                  /\ out' = "uncaught_DivisionByZero"
                  /\ pc' = "done"
                  /\ UNCHANGED required
             ELSE LET m == estimate_required_margin(Val(vres).notional, Val(leverage))
                  IN  /\ required' = Some(m)
                      /\ IF LtFixed(a, m)
                         THEN pc' = "done" /\ out' = "insufficient_balance"
                         ELSE pc' = "order" /\ out' = out
    /\ UNCHANGED <<entry, prec, logLevel, envKey, envSecret, clientBuilt, side, order_type, requested,
                   leverage, price, filters, vres, log, req>>

\* cli(): "finally place the order", with bot.place_market_order
CliPlaceOrder ==
    /\ pc = "order"
    /\ IF order_type = "MARKET"
       THEN /\ calls' = Append(calls, [op |-> "futures_create_order",
                                      side |-> Upper(side),
                                      quantity |-> Some(to_float(Val(vres).qty))])
            /\ \E ok \in BOOLEAN :
                IF ok
                THEN /\ log' = Append(log, Rec("INFO", "Market Order Success"))
                     /\ out' = "order_placed"
                ELSE /\ log' = Append(log, Rec("ERROR", "exception"))
                     /\ out' = "order_placement_failed"
       ELSE /\ out' = "only_market_implemented"
            /\ UNCHANGED <<calls, log>>
    /\ pc' = "done"
    /\ UNCHANGED <<entry, prec, logLevel, envKey, envSecret, clientBuilt, side, order_type, requested,
                   leverage, price, filters, vres, available, required, req>>

Next ==
    \/ CliStart
    \/ CliReadInputs
    \/ CliSetMarginType
    \/ CliSetLeverage
    \/ CliValidate
    \/ CliCheckBalance
    \/ CliPlaceOrder

Spec == Init /\ [][Next]_vars

SpecEnv == InitEnv /\ [][Next]_vars

\* a run of cli() in which Decimal division is exact (prec = 0): the
\* arithmetic claim C10 presupposes.  The program itself always runs with
\* the default decimal context (Init, prec = DefaultPrec).
InitExact ==
    /\ entry = "cli"
    /\ prec = 0
    /\ logLevel = "INFO"
    /\ pc = "cli"
    /\ envKey = "set"
    /\ envSecret = "set"
    /\ InitCommon

SpecExact == InitExact /\ [][Next]_vars

----------------------------------------------------------------------------
(* Properties of the interactive flow, src/bot.py *)

\* validate_and_prepare_quantity ran with both exchange answers
Validated == vres # None

\* ... and returned a result
Returned == vres # None /\ Val(vres).ok

OrderCalls == {i \in 1..Len(calls) : calls[i].op = "futures_create_order"}

\* C1: whenever validate_and_prepare_quantity returns for a mark price > 0,
\* the returned quantity is >= minQty (when minQty > 0) and the returned
\* notional is >= minNotional (when minNotional > 0); and when it does not
\* return, the failure is NotionalTooLow.
C1_MinimumsRespected ==
    (Validated /\ IsPos(Val(price))) =>
        LET r == Val(vres)
            f == Val(filters)
        IN  IF r.ok
            THEN /\ IsPos(f.minQty) => Le(f.minQty, r.qty)
                 /\ IsPos(f.minNotional) =>
                        (Le(f.minNotional, r.notional) /\ r.rounding >= 0)
            ELSE r.err = "NotionalTooLow"

\* a returned result for which both the minQty raise applied and a minimum
\* notional was in force
C1_Witness ==
    /\ Returned
    /\ IsPos(Val(price))
    /\ Val(vres).raisedMin
    /\ IsPos(Val(filters).minNotional)
    /\ Lt(Val(requested), Val(vres).qty)

\* C2: whenever validate_and_prepare_quantity returns and stepSize > 0, the
\* returned quantity is an exact integer multiple of stepSize (stated for
\* requests > 0 and mark prices > 0).
C2_StepMultiple ==
    (Returned /\ IsPos(Val(filters).stepSize) /\ IsPos(Val(requested))
        /\ IsPos(Val(price))) =>
        IsMultiple(Val(vres).qty, Val(filters).stepSize)

\* C3: if the available USDT balance is below the estimated required margin,
\* the run has ended with the insufficient-balance report and no
\* futures_create_order call was made.
C3_InsufficientBalanceNoOrder ==
    (available # None /\ required # None) =>
        LET a == Floor8(Val(available))
            m == Val(required)
        IN  (a.ip < m.ip \/ (a.ip = m.ip /\ a.fr < m.fr)) =>
                /\ pc = "done"
                /\ out = "insufficient_balance"
                /\ OrderCalls = {}

\* a run that ended on the balance check, with a positive margin estimate
C3_Witness ==
    /\ out = "insufficient_balance"
    /\ pc = "done"
    /\ available # None
    /\ required # None
    /\ IsPos(Val(available))
    /\ Val(required).ip >= 1

\* C5: no futures_create_order call is ever issued with a side outside
\* {BUY, SELL} or with a quantity <= 0.
C5_OrderInputsValidated ==
    \A i \in OrderCalls :
        /\ calls[i].side \in {"BUY", "SELL"}
        /\ IsPos(Val(calls[i].quantity))

\* C7: when the API key or the API secret is missing (unset or empty), the
\* run constructs no client, makes no exchange call and ends with the
\* missing-keys report.
C7_MissingCredentialsStop ==
    (envKey # "set" \/ envSecret # "set") =>
        /\ ~clientBuilt
        /\ calls = <<>>
        /\ pc \in {"cli", "done"}
        /\ pc = "done" => out = "api_keys_missing"

\* C8: for every quantity and every step > 0, floor_to_step(qty, step) is a
\* multiple of step with floor_to_step(qty, step) <= qty < floor_to_step(qty,
\* step) + step; for step = 0 it is qty unchanged.
C8_FloorBracket ==
    Validated =>
        LET q == Val(requested)
            st == Val(filters).stepSize
            fl == floor_to_step(q, st)
        IN  IF IsZero(st) THEN fl = q
            ELSE /\ IsMultiple(fl, st)
                 /\ Le(fl, q)
                 /\ Lt(q, Add(fl, st))

\* C9: for a requested quantity > 0, if the floored quantity already meets
\* minQty and its notional already meets minNotional (or the minimum is 0),
\* the returned quantity is the floored quantity and is <= the request; a
\* returned quantity above the request comes only from one of the two raises.
C9_NeverRoundsUp ==
    (Validated /\ IsPos(Val(requested))) =>
        LET r == Val(vres)
            f == Val(filters)
            fl == floor_to_step(Val(requested), f.stepSize)
            meets == /\ IsZero(f.minQty) \/ Le(f.minQty, fl)
                     /\ IsZero(f.minNotional) \/ Le(f.minNotional, Mul(fl, Val(price)))
        IN  /\ meets => /\ r.ok
                        /\ Eq(r.qty, fl)
                        /\ Le(r.qty, Val(requested))
                        /\ ~r.raisedMin /\ ~r.raisedNotional
            /\ (r.ok /\ Lt(Val(requested), r.qty)) => (r.raisedMin \/ r.raisedNotional)

\* a request that the step strictly lowered and no minimum raised
C9_Witness ==
    /\ Returned
    /\ IsPos(Val(requested))
    /\ IsPos(Val(filters).stepSize)
    /\ IsPos(Val(filters).minQty)
    /\ IsPos(Val(filters).minNotional)
    /\ ~Val(vres).raisedMin
    /\ ~Val(vres).raisedNotional
    /\ Lt(Val(vres).qty, Val(requested))

----------------------------------------------------------------------------
(* src/main.py: main(), BasicBot.place_order and BasicBot._signed_request *)

\* largest quantity argument, in tenths
MaxArgQty == 1

SideArgs == {"BUY", "sell", "HOLD"}

TypeArgs == {"MARKET", "limit", "STOP_LIMIT", "OCO"}

QtyArgs == {Dec(n, 10) : n \in (-1)..MaxArgQty}

\* an optional price: absent, or given
PriceArgs == {None, Some(Dec(1, 1))}

OrderArgs ==
    [side : SideArgs, type : TypeArgs, quantity : QtyArgs,
     price : PriceArgs, stopPrice : PriceArgs]

\* the levels of the logging module
LevelNo(level) ==
    CASE level = "DEBUG" -> 10
      [] level = "INFO" -> 20
      [] level = "WARNING" -> 30
      [] level = "ERROR" -> 40

\* url = f"{base_url}{path}?{query}&signature={signature}": a text that
\* carries the HMAC signature of the query
Url(keys) == [text |-> "url", query |-> keys, secret |-> FALSE, signature |-> TRUE]

\* any other formatted argument
Text(t) == [text |-> t, query |-> {}, secret |-> FALSE, signature |-> FALSE]

RecArgs(level, msg, args) == [level |-> level, msg |-> msg, args |-> args]

\* place_order with the quantity check written as quantity < 0
place_order_error_ZeroQty(a) ==
    LET sd == Upper(a.side)
        ot == Upper(a.type)
    IN  IF sd \notin {"BUY", "SELL"} THEN "side must be BUY or SELL"
        ELSE IF ot \notin {"MARKET", "LIMIT", "STOP_LIMIT"}
        THEN "order_type must be MARKET, LIMIT, or STOP_LIMIT"
        ELSE IF a.quantity.n < 0 THEN "quantity must be > 0"
        ELSE IF ot = "LIMIT" /\ a.price = None
        THEN "price is required for LIMIT orders"
        ELSE IF ot = "STOP_LIMIT" /\ (a.stopPrice = None \/ a.price = None)
        THEN "stopPrice and price are required for STOP_LIMIT orders"
        ELSE ""

\* the checks of place_order, in the order of the code: the message of the
\* ValueError raised, or "" when the request is built
place_order_error(a) ==
    LET sd == Upper(a.side)
        ot == Upper(a.type)
    IN  IF sd \notin {"BUY", "SELL"} THEN "side must be BUY or SELL"
        ELSE IF ot \notin {"MARKET", "LIMIT", "STOP_LIMIT"}
        THEN "order_type must be MARKET, LIMIT, or STOP_LIMIT"
        ELSE IF a.quantity.n <= 0 THEN "quantity must be > 0"
        ELSE IF ot = "LIMIT" /\ a.price = None
        THEN "price is required for LIMIT orders"
        ELSE IF ot = "STOP_LIMIT" /\ (a.stopPrice = None \/ a.price = None)
        THEN "stopPrice and price are required for STOP_LIMIT orders"
        ELSE ""

\* the keys of params as _signed_request signs them
ParamKeys(a) ==
    {"symbol", "side", "type", "quantity", "reduceOnly", "timestamp"}
    \cup (IF Upper(a.type) = "LIMIT" THEN {"price", "timeInForce"} ELSE {})
    \cup (IF Upper(a.type) = "STOP_LIMIT" THEN {"stopPrice", "price"} ELSE {})

\* a run of main(), or of a caller of BasicBot.place_order, in any state of
\* the credentials; the root logger starts at WARNING
InitMain ==
    /\ entry \in {"main", "direct"}
    /\ prec = DefaultPrec
    /\ logLevel = "WARNING"
    /\ pc = "main"
    /\ envKey \in EnvStates
    /\ envSecret \in EnvStates
    /\ InitCommon

\* main() up to the construction of the bot: setup_logging, parse_args with
\* its choices, the credentials, BasicBot.__init__
MainStart ==
    /\ pc = "main"
    /\ entry = "main"
    /\ logLevel' = "INFO"
    /\ \E a \in OrderArgs :
        IF a.side \notin {"BUY", "SELL"} \/ a.type \notin {"MARKET", "LIMIT", "STOP_LIMIT"}
        THEN /\ out' = "usage_error"
             /\ pc' = "done"
             /\ UNCHANGED <<clientBuilt, req>>
        ELSE IF Getenv(envKey, "") = "" \/ Getenv(envSecret, "") = ""
        THEN /\ out' = "API key and secret are required"
             /\ pc' = "done"
             /\ UNCHANGED <<clientBuilt, req>>
        ELSE /\ clientBuilt' = TRUE
             /\ req' = Some(a)
             /\ pc' = "place_order"
             /\ out' = out
    /\ UNCHANGED <<entry, prec, envKey, envSecret, side, order_type, requested, leverage,
                   price, filters, vres, available, required, calls, log>>

\* a caller that constructs BasicBot and calls place_order on its own
DirectStart ==
    /\ pc = "main"
    /\ entry = "direct"
    /\ \E a \in OrderArgs :
        IF Getenv(envKey, "") = "" \/ Getenv(envSecret, "") = ""
        THEN /\ out' = "API key and secret are required"
             /\ pc' = "done"
             /\ UNCHANGED <<clientBuilt, req>>
        ELSE /\ clientBuilt' = TRUE
             /\ req' = Some(a)
             /\ pc' = "place_order"
             /\ out' = out
    /\ UNCHANGED <<entry, prec, logLevel, envKey, envSecret, side, order_type, requested,
                   leverage, price, filters, vres, available, required, calls, log>>

\* place_order up to the HTTP request of _signed_request
PlaceOrder ==
    /\ pc = "place_order"
    /\ LET a == Val(req)
           err == place_order_error(a)
       IN  /\ side' = Upper(a.side)
           /\ order_type' = Upper(a.type)
           /\ IF err # ""
              THEN /\ out' = err
                   /\ pc' = "raised"
                   /\ UNCHANGED <<calls, log>>
              ELSE /\ log' = Append(log, RecArgs("DEBUG", "Request URL: %s",
                                                 <<Url(ParamKeys(a))>>))
                   /\ calls' = Append(calls, [op |-> "POST /fapi/v1/order",
                                              side |-> Upper(a.side),
                                              quantity |-> Some(to_float(a.quantity))])
                   /\ pc' = "http"
                   /\ out' = out
    /\ UNCHANGED <<entry, prec, logLevel, envKey, envSecret, clientBuilt, requested,
                   leverage, price, filters, vres, available, required, req>>

\* _signed_request from the answer of session.request on
HttpAnswer ==
    /\ pc = "http"
    /\ LET url == Url(ParamKeys(Val(req)))
           seen == <<RecArgs("INFO", "Request: %s %s", <<Text("POST"), url>>),
                     RecArgs("INFO", "Response code: %s", <<Text("status_code")>>),
                     RecArgs("DEBUG", "Response text: %s", <<Text("body")>>)>>
       IN  \/ \* a 2xx answer
              /\ log' = log \o seen
              /\ pc' = "returned"
              /\ out' = out
           \/ \* another status: raise_for_status raises
              /\ log' = (log \o seen) \o <<RecArgs("ERROR", "HTTP request failed", <<>>)>>
              /\ pc' = "raised"
              /\ out' = "HTTPError"
           \/ \* no answer: session.request raises
              /\ log' = Append(log, RecArgs("ERROR", "HTTP request failed", <<>>))
              /\ pc' = "raised"
              /\ out' = "RequestException"
    /\ UNCHANGED <<entry, prec, logLevel, envKey, envSecret, clientBuilt, side, order_type,
                   requested, leverage, price, filters, vres, available, required,
                   calls, req>>

\* main() after place_order: the result or the error is printed and logged;
\* another caller just receives it
Finish ==
    /\ pc \in {"returned", "raised"}
    /\ IF entry = "main"
       THEN IF pc = "returned"
            THEN /\ log' = Append(log, RecArgs("INFO", "Order result: %s", <<Text("resp")>>))
                 /\ out' = "order_placed"
            ELSE /\ log' = Append(log, RecArgs("ERROR", "Failed to place order", <<>>))
                 /\ out' = out
       ELSE /\ log' = log
            /\ out' = IF pc = "returned" THEN "order_placed" ELSE out
    /\ pc' = "done"
    /\ UNCHANGED <<entry, prec, logLevel, envKey, envSecret, clientBuilt, side, order_type,
                   requested, leverage, price, filters, vres, available, required,
                   calls, req>>

NextMain ==
    \/ MainStart
    \/ DirectStart
    \/ PlaceOrder
    \/ HttpAnswer
    \/ Finish

SpecMain == InitMain /\ [][NextMain]_vars

----------------------------------------------------------------------------
(* Properties of src/main.py *)

\* the conditions under which place_order is to fail
BadOrder(a) ==
    \/ Upper(a.type) = "LIMIT" /\ a.price = None
    \/ Upper(a.type) = "STOP_LIMIT" /\ (a.stopPrice = None \/ a.price = None)
    \/ Upper(a.side) \notin {"BUY", "SELL"}
    \/ a.quantity.n <= 0

OrderErrors ==
    {"side must be BUY or SELL", "quantity must be > 0",
     "order_type must be MARKET, LIMIT, or STOP_LIMIT",
     "price is required for LIMIT orders",
     "stopPrice and price are required for STOP_LIMIT orders"}

\* C4: once place_order has run, a missing price for LIMIT, a missing
\* stopPrice or price for STOP_LIMIT, a side other than BUY or SELL or a
\* quantity <= 0 has raised the ValueError and no HTTP request was made; a
\* request is made only for parameters that pass all these checks.
C4_InvalidOrderNoRequest ==
    (req # None /\ pc # "place_order") =>
        /\ BadOrder(Val(req)) => (calls = <<>> /\ out \in OrderErrors)
        /\ calls # <<>> => ~BadOrder(Val(req))

\* place_order has raised for a STOP_LIMIT order without price, with a valid
\* side and quantity, and no request was made
C4_Witness ==
    /\ req # None
    /\ pc = "raised"
    /\ calls = <<>>
    /\ Upper(Val(req).type) = "STOP_LIMIT"
    /\ Val(req).price = None
    /\ Val(req).stopPrice # None
    /\ out = "stopPrice and price are required for STOP_LIMIT orders"

\* C6: no logging call at INFO or above, enabled by the configuration in
\* force, carries the API secret or the HMAC signature.
C6_NoSignatureAtInfo ==
    \A i \in 1..Len(log) :
        (LevelNo(log[i].level) >= LevelNo("INFO") /\ LevelNo(log[i].level) >= LevelNo(logLevel)) =>
            \A j \in 1..Len(log[i].args) :
                ~log[i].args[j].secret /\ ~log[i].args[j].signature

====
